---- MODULE Spec2Model ----
(***************************************************************************)
(* A model of the two components of the repository:                        *)
(*   backend/helpers/linkedin.py  - the LinkedIn share client              *)
(*   backend/posts/models.py      - the Post record and its save()         *)
(* The share client is checked under Spec, the Post record under PostSpec. *)
(***************************************************************************)
EXTENDS Integers, Sequences, FiniteSets, TLC

VARIABLES
    socialaccount,  \* the social-auth store: pk -> [user, provider, uid]
    socialtoken,    \* the social-auth store: pk -> [account, token]
    call,           \* the invocation of the share client in progress, or idle
    result,         \* what that invocation returned or raised
    outbox,         \* the HTTP requests that invocation put on the wire
    answer,         \* what the network answered to requests.post, if it was called
    post,           \* the in-memory Post instance
    row,            \* the persisted Post row, <<>> before the first save
    now,            \* the clock read by timezone.now() and the auto timestamps
    last            \* the last Post.save: fields before it, flag, outcome

vars == <<socialaccount, socialtoken, call, result, outbox, answer, post, row, now, last>>
clientVars == <<socialaccount, socialtoken, call, result, outbox, answer>>
postVars == <<post, row, now, last>>

(***************************************************************************)
(* Bounds of the model.                                                    *)
(***************************************************************************)
MaxAccounts == 2    \* rows of the social-account table
MaxTokens == 2      \* rows of the social-token table
MaxTime == 1        \* the clock runs over 0..MaxTime

(***************************************************************************)
(* Python values.                                                          *)
(***************************************************************************)
\* None, and a present value of a nullable field.
None == <<>>
Some(v) == <<v>>

\* A variant of FalsyStr that tests `is None` only.
FalsyStr_NoneOnly(x) == x = None

\* `not x` for a nullable string: None and "" are falsy.
FalsyStr(x) == x = None \/ x[1] = ""

\* `if x:` for a nullable boolean: None and False are falsy.
TruthyBool(x) == x # None /\ x[1]

\* An f-string with one replacement field holding a str.
FString(prefix, s) == prefix \o s

\* Outcomes of a call: a returned value or a raised exception.
Return(v) == [kind |-> "return", value |-> v]
Raise(error, message) == [kind |-> "raise", error |-> error, message |-> message]

\* Names bound in a module: the builtins, and the module's own globals.
Builtins == {"Exception", "ValueError", "all"}
LinkedinGlobals ==
    {"get_user_model", "requests", "User", "get_linkedin_user_details",
     "get_share_headers", "share_to_linkedin"}
ModelsGlobals == {"models", "settings", "User", "Post"}

\* Looking a name up at run time: an unbound name raises NameError.
Bound(globals, name) == name \in globals \cup Builtins
NameError(name) == Raise("NameError", "name '" \o name \o "' is not defined")

\* `raise Name(message)`: the name is looked up first.
RaiseNamed(globals, name, message) ==
    IF Bound(globals, name) THEN Raise(name, message) ELSE NameError(name)

(***************************************************************************)
(* The social-auth store, as the client reads it. The client never writes  *)
(* it: a behaviour starts from any store within the bounds and keeps it.   *)
(***************************************************************************)
Users == {"alice", "bob"}
Providers == {"linkedin", "github"}
Texts == {"", "Hello world"}

\* The member identifiers a LinkedIn row may hold: absent, empty, or its own.
MemberId(pk) == "member" \o ToString(pk)
Uids(pk, provider) ==
    IF provider = "linkedin" THEN {None, Some(""), Some(MemberId(pk))}
    ELSE {Some(MemberId(pk))}

AccountRows(pk) ==
    {[user |-> u, provider |-> p, uid |-> i] :
        u \in Users, p \in Providers, i \in {None, Some(""), Some(MemberId(pk))}}

AccountTables ==
    UNION {{t \in [D -> UNION {AccountRows(pk) : pk \in D}] :
                \A pk \in D : /\ t[pk] \in AccountRows(pk)
                              /\ t[pk].uid \in Uids(pk, t[pk].provider)} :
           D \in SUBSET (1..MaxAccounts)}

\* Every token row belongs to an existing account and holds its own secret.
TokenTables(accounts) ==
    UNION {{t \in [D -> [account : DOMAIN accounts, token : {"tok" \o ToString(pk) : pk \in D}]] :
                \A pk \in D : t[pk].token = "tok" \o ToString(pk)} :
           D \in SUBSET (1..MaxTokens)}

\* A variant of LinkedinAccounts without the provider filter.
LinkedinAccounts_AnyProvider(user) ==
    {pk \in DOMAIN socialaccount : socialaccount[pk].user = user}

\* user.socialaccount_set.filter(provider="linkedin")
LinkedinAccounts(user) ==
    {pk \in DOMAIN socialaccount :
        socialaccount[pk].user = user /\ socialaccount[pk].provider = "linkedin"}

\* A variant of TokensOf that reads the whole token table.
TokensOf_AnyAccount(account) == DOMAIN socialtoken

\* linkedin_social.socialtoken_set.all()
TokensOf(account) == {pk \in DOMAIN socialtoken : socialtoken[pk].account = account}

\* QuerySet.exists()
Exists(qs) == qs # {}

\* QuerySet.get(): the one row, or DoesNotExist / MultipleObjectsReturned.
Get(qs) ==
    IF qs = {} THEN Raise("DoesNotExist", "SocialAccount matching query does not exist.")
    ELSE IF Cardinality(qs) > 1
         THEN Raise("MultipleObjectsReturned", "get() returned more than one SocialAccount")
         ELSE Return(CHOOSE pk \in qs : TRUE)

\* QuerySet.first() of a non-empty unordered queryset: the row of least pk.
First(qs) == CHOOSE pk \in qs : \A other \in qs : pk <= other

(***************************************************************************)
(* backend/helpers/linkedin.py                                             *)
(***************************************************************************)
GetLinkedinUserDetails(user) ==
    LET got == Get(LinkedinAccounts(user)) IN
    IF got.kind = "raise"
    THEN RaiseNamed(LinkedinGlobals, "UserNotConnectedLinkedIn",
                    "LinkedIn is not connected on this user.")
    ELSE got

\* A variant of GetShareHeaders without the exists() check: first() is None.
GetShareHeaders_NoCheck(linkedin_social) ==
    LET tokens == TokensOf(linkedin_social) IN
    IF tokens = {}
    THEN Raise("AttributeError", "'NoneType' object has no attribute 'token'")
    ELSE Return([Authorization |-> FString("Bearer ", socialtoken[First(tokens)].token),
                 XRestliProtocolVersion |-> "2.0.0"])

GetShareHeaders(linkedin_social) ==
    LET tokens == TokensOf(linkedin_social) IN
    IF ~Exists(tokens)
    THEN RaiseNamed(LinkedinGlobals, "Exception",
                    "LinkedIn  connection is invalid. Please login again.")
    ELSE LET social_token == socialtoken[First(tokens)] IN
         Return([Authorization |-> FString("Bearer ", social_token.token),
                 XRestliProtocolVersion |-> "2.0.0"])

Endpoint == "https://api.linkedin.com/v2/ugcPosts"

Payload(linkedin_user_id, text) ==
    [author |-> FString("urn:li:person:", linkedin_user_id[1]),
     lifecycleState |-> "PUBLISHED",
     specificContent |->
        [ShareContent |->
            [shareCommentary |-> [text |-> FString("", text)],
             shareMediaCategory |-> "NONE"]],
     visibility |-> [MemberNetworkVisibility |-> "PUBLIC"]]

\* What the network can answer to requests.post: a response, or no response.
Statuses == {200, 299, 300, 304, 400, 499, 500, 599, 600}
Bodies == {"", "{\"message\": \"error\"}"}
Answers ==
    {[kind |-> "response", status |-> s, body |-> b] : s \in Statuses, b \in Bodies}
    \cup {[kind |-> "raise", status |-> 0, body |-> ""]}
NoAnswer == [kind |-> "none", status |-> 0, body |-> ""]

\* A variant of RequestsPost that sends the request again after the first try.
RequestsPost_Retry(request) == <<request, request>>

\* requests.post(endpoint, json=payload, headers=headers): the requests sent.
RequestsPost(request) == <<request>>

\* Response.raise_for_status(): HTTPError for a 4xx or 5xx status.
RaiseForStatus(status) == 400 <= status /\ status < 600

ShareToLinkedin(user, text, net) ==
    IF ~Exists(LinkedinAccounts(user))
    THEN [result |-> RaiseNamed(LinkedinGlobals, "ValueError", "User is not linked to LinkedIn"),
          sent |-> <<>>]
    ELSE
    LET got == Get(LinkedinAccounts(user)) IN
    IF got.kind = "raise" THEN [result |-> got, sent |-> <<>>]
    ELSE
    LET linkedin_social == got.value
        linkedin_user_id == socialaccount[linkedin_social].uid
    IN
    IF FalsyStr(linkedin_user_id)
    THEN [result |-> RaiseNamed(LinkedinGlobals, "Exception", "Invalid LinkedIn User Id"),
          sent |-> <<>>]
    ELSE
    LET headers == GetShareHeaders(linkedin_social) IN
    IF headers.kind = "raise" THEN [result |-> headers, sent |-> <<>>]
    ELSE
    LET request == [url |-> Endpoint,
                    json |-> Payload(linkedin_user_id, text),
                    headers |-> headers.value]
        sent == RequestsPost(request)
    IN
    IF net.kind = "raise"
    THEN [result |-> Raise("ConnectionError", "HTTPSConnectionPool: Max retries exceeded"),
          sent |-> sent]
    ELSE IF RaiseForStatus(net.status)
         THEN [result |-> RaiseNamed(LinkedinGlobals, "Exception",
                                     "Invalid post, please try again later"),
               sent |-> sent]
         ELSE [result |-> Return(net), sent |-> sent]

(***************************************************************************)
(* Invocations of the share client.                                        *)
(***************************************************************************)
NoCall == [op |-> "idle", user |-> "", text |-> "", account |-> 0]
NoResult == [kind |-> "none"]

CallGetLinkedinUserDetails(user) ==
    /\ call.op = "idle"
    /\ call' = [op |-> "get_linkedin_user_details", user |-> user, text |-> "", account |-> 0]
    /\ result' = GetLinkedinUserDetails(user)
    /\ UNCHANGED <<socialaccount, socialtoken, outbox, answer, postVars>>

CallGetShareHeaders(account) ==
    /\ call.op = "idle"
    /\ call' = [op |-> "get_share_headers", user |-> "", text |-> "", account |-> account]
    /\ result' = GetShareHeaders(account)
    /\ UNCHANGED <<socialaccount, socialtoken, outbox, answer, postVars>>

CallShareToLinkedin(user, text, net) ==
    /\ call.op = "idle"
    /\ LET done == ShareToLinkedin(user, text, net) IN
        \* the network's answer matters only if requests.post was reached
        /\ (done.sent = <<>>) => (net = CHOOSE a \in Answers : TRUE)
        /\ call' = [op |-> "share_to_linkedin", user |-> user, text |-> text, account |-> 0]
        /\ result' = done.result
        /\ outbox' = done.sent
        /\ answer' = IF done.sent = <<>> THEN NoAnswer ELSE net
    /\ UNCHANGED <<socialaccount, socialtoken, postVars>>

\* The caller takes the outcome; the next invocation starts afresh.
Finish ==
    /\ call.op # "idle"
    /\ call' = NoCall
    /\ result' = NoResult
    /\ outbox' = <<>>
    /\ answer' = NoAnswer
    /\ UNCHANGED <<socialaccount, socialtoken, postVars>>

NoPost == [share_now |-> None, share_at |-> None, share_start_at |-> None,
           share_complete_at |-> None]
NoSave == [op |-> "none"]

Init ==
    /\ socialaccount \in AccountTables
    /\ socialtoken \in TokenTables(socialaccount)
    /\ call = NoCall
    /\ result = NoResult
    /\ outbox = <<>>
    /\ answer = NoAnswer
    /\ post = NoPost
    /\ row = None
    /\ now = 0
    /\ last = NoSave

Next ==
    \/ \E user \in Users : CallGetLinkedinUserDetails(user)
    \/ \E account \in DOMAIN socialaccount : CallGetShareHeaders(account)
    \/ \E user \in Users, text \in Texts, net \in Answers : CallShareToLinkedin(user, text, net)
    \/ Finish

Spec == Init /\ [][Next]_vars

(***************************************************************************)
(* backend/posts/models.py                                                 *)
(***************************************************************************)
\* A variant of DoSchedulePost that tests share_now for truth, not presence.
DoSchedulePost_Truthy(self) ==
    /\ (TruthyBool(self.share_now) \/ self.share_at # None)
    /\ (self.share_complete_at = None /\ self.share_start_at = None)

\* The schedule-intent flag of the pre-save block: all([..., ...]).
DoSchedulePost(self) ==
    /\ (self.share_now # None \/ self.share_at # None)
    /\ (self.share_complete_at = None /\ self.share_start_at = None)

\* timezone.now(): the name timezone is looked up in the module first.
TimezoneNow(t) ==
    IF Bound(ModelsGlobals, "timezone") THEN Return(Some(t)) ELSE NameError("timezone")

\* super().save(): the row written, with the auto_now_add and auto_now stamps.
SuperSave(self, stored, t) ==
    Some([share_now |-> self.share_now,
          share_at |-> self.share_at,
          share_start_at |-> self.share_start_at,
          share_complete_at |-> self.share_complete_at,
          created_at |-> IF stored = None THEN t ELSE stored[1].created_at,
          updated_at |-> t])

\* Post.save(): the flag, the outcome, the instance and the row after it.
PostSave(self, stored, t) ==
    LET do_schedule_post == DoSchedulePost(self)
        stamp == IF TruthyBool(self.share_now) THEN TimezoneNow(t) ELSE Return(self.share_at)
    IN
    IF stamp.kind = "raise"
    THEN [do_schedule_post |-> do_schedule_post, outcome |-> stamp,
          self |-> self, stored |-> stored]
    ELSE LET written == [self EXCEPT !.share_at = stamp.value] IN
         [do_schedule_post |-> do_schedule_post, outcome |-> Return(None),
          self |-> written, stored |-> SuperSave(written, stored, t)]

NullableBooleans == {None, Some(TRUE), Some(FALSE)}
NullableTimes == {None} \cup {Some(t) : t \in 0..MaxTime}

\* A caller assigns the instance's scheduling fields.
SetShareNow(v) ==
    /\ v # post.share_now
    /\ post' = [post EXCEPT !.share_now = v]
    /\ last' = NoSave
    /\ UNCHANGED <<row, now, clientVars>>

SetShareAt(v) ==
    /\ v # post.share_at
    /\ post' = [post EXCEPT !.share_at = v]
    /\ last' = NoSave
    /\ UNCHANGED <<row, now, clientVars>>

\* A worker stamps, or a caller clears, the processing timestamps.
SetShareStartAt(v) ==
    /\ v # post.share_start_at
    /\ post' = [post EXCEPT !.share_start_at = v]
    /\ last' = NoSave
    /\ UNCHANGED <<row, now, clientVars>>

SetShareCompleteAt(v) ==
    /\ v # post.share_complete_at
    /\ post' = [post EXCEPT !.share_complete_at = v]
    /\ last' = NoSave
    /\ UNCHANGED <<row, now, clientVars>>

Tick ==
    /\ now < MaxTime
    /\ now' = now + 1
    /\ last' = NoSave
    /\ UNCHANGED <<post, row, clientVars>>

Save ==
    /\ LET done == PostSave(post, row, now) IN
        /\ post' = done.self
        /\ row' = done.stored
        /\ last' = [op |-> "save", before |-> post, at |-> now,
                    do_schedule_post |-> done.do_schedule_post,
                    outcome |-> done.outcome]
    /\ UNCHANGED <<now, clientVars>>

PostInit ==
    /\ socialaccount = <<>>
    /\ socialtoken = <<>>
    /\ call = NoCall
    /\ result = NoResult
    /\ outbox = <<>>
    /\ answer = NoAnswer
    /\ post = NoPost
    /\ row = None
    /\ now = 0
    /\ last = NoSave

PostNext ==
    \/ \E v \in NullableBooleans : SetShareNow(v)
    \/ \E v \in NullableTimes : SetShareAt(v)
    \/ \E v \in {None, Some(now)} : SetShareStartAt(v)
    \/ \E v \in {None, Some(now)} : SetShareCompleteAt(v)
    \/ Tick
    \/ Save

PostSpec == PostInit /\ [][PostNext]_vars

(***************************************************************************)
(* The vocabulary of the properties.                                       *)
(***************************************************************************)
\* The LinkedIn social-identity records of a user.
IdentitiesOf(user) ==
    {pk \in DOMAIN socialaccount :
        socialaccount[pk].provider = "linkedin" /\ socialaccount[pk].user = user}
TokenRowsOf(pk) == {t \in DOMAIN socialtoken : socialtoken[t].account = pk}
EmptyUid(pk) == socialaccount[pk].uid = <<>> \/ socialaccount[pk].uid = <<"">>

Sharing == call.op = "share_to_linkedin"
Raised(error, message) ==
    result.kind = "raise" /\ result.error = error /\ result.message = message
InvalidInput == Raised("ValueError", "User is not linked to LinkedIn")
InvalidConnection ==
    Raised("Exception", "LinkedIn  connection is invalid. Please login again.")
InvalidLinkedInUserId == Raised("Exception", "Invalid LinkedIn User Id")
ShareFailed == Raised("Exception", "Invalid post, please try again later")
NotConnected ==
    Raised("UserNotConnectedLinkedIn", "LinkedIn is not connected on this user.")
Answered == answer.kind = "response"
Is2xx(status) == 200 <= status /\ status <= 299

(***************************************************************************)
(* C1: for a user with no LinkedIn identity record, share_to_linkedin      *)
(* fails with InvalidInput (ValueError) for every text, and makes no       *)
(* outbound HTTP call.                                                     *)
(***************************************************************************)
C1_NoIdentityIsInvalidInput ==
    (Sharing /\ IdentitiesOf(call.user) = {}) => (InvalidInput /\ outbox = <<>>)

\* A user whose only social account is of another provider was refused.
C1_Witness ==
    /\ Sharing /\ IdentitiesOf(call.user) = {}
    /\ \E pk \in DOMAIN socialaccount : socialaccount[pk].user = call.user
    /\ call.text = "Hello world"
    /\ InvalidInput /\ outbox = <<>>

(***************************************************************************)
(* C2: get_linkedin_user_details returns the user's LinkedIn identity      *)
(* record when the lookup succeeds, and otherwise fails with exactly the   *)
(* UserNotConnectedLinkedIn (NotConnected) error kind.                     *)
(***************************************************************************)
C2_DetailsOrNotConnected ==
    (call.op = "get_linkedin_user_details") =>
        IF Cardinality(IdentitiesOf(call.user)) = 1
        THEN result.kind = "return" /\ result.value \in IdentitiesOf(call.user)
        ELSE NotConnected

(***************************************************************************)
(* C3 as stated: for a user that has a LinkedIn identity with zero tokens, *)
(* get_share_headers on that identity fails with InvalidConnection, and    *)
(* share_to_linkedin fails with InvalidConnection, with no HTTP call.      *)
(***************************************************************************)
C3_ZeroTokensIsInvalidConnection ==
    /\ (call.op = "get_share_headers" /\ TokenRowsOf(call.account) = {})
            => InvalidConnection
    /\ (Sharing /\ \E pk \in IdentitiesOf(call.user) : TokenRowsOf(pk) = {})
            => (InvalidConnection /\ outbox = <<>>)

(***************************************************************************)
(* C3 as amended: for a user that has a LinkedIn identity with zero        *)
(* tokens, get_share_headers on that identity fails with                   *)
(* InvalidConnection, and share_to_linkedin fails with no HTTP call made;  *)
(* it fails with InvalidConnection when that identity is the user's only   *)
(* LinkedIn identity and its uid is not empty.                             *)
(***************************************************************************)
C3_ZeroTokensFailsWithoutCall ==
    /\ (call.op = "get_share_headers" /\ TokenRowsOf(call.account) = {})
            => InvalidConnection
    /\ \A pk \in IdentitiesOf(call.user) :
        (Sharing /\ TokenRowsOf(pk) = {}) =>
            /\ result.kind = "raise" /\ outbox = <<>>
            /\ (IdentitiesOf(call.user) = {pk} /\ ~EmptyUid(pk)) => InvalidConnection

\* The user's only identity has a uid and no token, and the share was refused.
C3_Witness ==
    /\ Sharing
    /\ \E pk \in IdentitiesOf(call.user) :
        IdentitiesOf(call.user) = {pk} /\ ~EmptyUid(pk) /\ TokenRowsOf(pk) = {}
    /\ socialtoken # <<>>
    /\ InvalidConnection /\ outbox = <<>>

(***************************************************************************)
(* C4: for a user whose LinkedIn identity record (the one record the user  *)
(* has) holds an empty or absent uid, share_to_linkedin fails with         *)
(* InvalidLinkedInUserId, whatever tokens the identity has, and makes no   *)
(* outbound HTTP call.                                                     *)
(***************************************************************************)
C4_EmptyUidIsInvalidUserId ==
    \A pk \in IdentitiesOf(call.user) :
        (Sharing /\ IdentitiesOf(call.user) = {pk} /\ EmptyUid(pk))
            => (InvalidLinkedInUserId /\ outbox = <<>>)

\* An identity with an empty uid and a token was refused for its uid.
C4_Witness ==
    /\ Sharing
    /\ \E pk \in IdentitiesOf(call.user) :
        /\ IdentitiesOf(call.user) = {pk}
        /\ socialaccount[pk].uid = <<"">>
        /\ TokenRowsOf(pk) # {}
    /\ InvalidLinkedInUserId /\ outbox = <<>>

(***************************************************************************)
(* C5: whenever the outbound call receives an HTTP response with a non-2xx *)
(* status, share_to_linkedin fails with ShareFailed, whatever the status   *)
(* code and the body, and never returns the response.                      *)
(***************************************************************************)
C5_Non2xxIsShareFailed ==
    (Sharing /\ Answered /\ ~Is2xx(answer.status))
        => (ShareFailed /\ result.kind # "return")

(***************************************************************************)
(* C6: whenever the endpoint answers with a 2xx status, share_to_linkedin  *)
(* returns the raw response and has made exactly one outbound call; no     *)
(* invocation, successful or failed, makes more than one outbound call     *)
(* (one call of requests.post).                                            *)
(***************************************************************************)
C6_SuccessReturnsAfterOneCall ==
    /\ (Sharing /\ Answered /\ Is2xx(answer.status)) =>
            /\ result.kind = "return" /\ result.value = answer
            /\ Len(outbox) = 1
    /\ Len(outbox) <= 1

\* A 2xx answer with a body came back to the caller.
C6_Witness ==
    /\ Sharing /\ Answered /\ answer.status = 299 /\ answer.body # ""
    /\ result.kind = "return" /\ result.value = answer
    /\ Len(outbox) = 1

(***************************************************************************)
(* C7: the outbound request of share_to_linkedin is built only from the    *)
(* calling user's data: author is "urn:li:person:<uid>" for the uid of a   *)
(* LinkedIn identity of that user, the shareCommentary text is the input   *)
(* text, Authorization is "Bearer <token>" for a token of that same        *)
(* identity, and X-Restli-Protocol-Version is 2.0.0; a user whose one      *)
(* LinkedIn identity has a uid and a token gets exactly one such request.  *)
(***************************************************************************)
C7_RequestBuiltFromOwnIdentity ==
    /\ \A i \in 1..Len(outbox) :
        \E pk \in IdentitiesOf(call.user) :
            /\ socialaccount[pk].uid # <<>>
            /\ outbox[i].json.author = "urn:li:person:" \o socialaccount[pk].uid[1]
            /\ outbox[i].json.specificContent.ShareContent.shareCommentary.text = call.text
            /\ \E t \in TokenRowsOf(pk) :
                outbox[i].headers.Authorization = "Bearer " \o socialtoken[t].token
            /\ outbox[i].headers.XRestliProtocolVersion = "2.0.0"
            /\ outbox[i].url = "https://api.linkedin.com/v2/ugcPosts"
    /\ \A pk \in IdentitiesOf(call.user) :
        (Sharing /\ IdentitiesOf(call.user) = {pk} /\ ~EmptyUid(pk) /\ TokenRowsOf(pk) # {})
            => Len(outbox) = 1

\* A request went out for a user while another user's identity holds an older token.
C7_Witness ==
    /\ Sharing /\ Len(outbox) = 1 /\ call.text = "Hello world"
    /\ \E other \in DOMAIN socialaccount, pk \in IdentitiesOf(call.user) :
        /\ other \notin IdentitiesOf(call.user)
        /\ socialaccount[other].provider = "linkedin"
        /\ \E mine \in TokenRowsOf(pk), theirs \in TokenRowsOf(other) : theirs < mine

(***************************************************************************)
(* C8: each save made while share_now is truthy completes and leaves       *)
(* share_at equal to the current time of that save, and each save made     *)
(* while share_now is absent or false leaves share_at unchanged.           *)
(***************************************************************************)
C8_ShareNowStampsShareAt ==
    (last.op = "save") =>
        IF last.before.share_now = <<TRUE>>
        THEN /\ last.outcome.kind = "return"
             /\ post.share_at = <<last.at>>
             /\ row # <<>> /\ row[1].share_at = <<last.at>>
        ELSE post.share_at = last.before.share_at

(***************************************************************************)
(* C9: on every Post.save, do_schedule_post is true exactly when share_now *)
(* is set or share_at is set, and share_complete_at and share_start_at are *)
(* both unset, on the field values before the save; it is false for a Post *)
(* with neither share_now nor share_at; and what a completed save persists *)
(* is the same whatever the flag: the fields as they were given.           *)
(***************************************************************************)
C9_FlagIsScheduleIntent ==
    (last.op = "save") =>
        /\ last.do_schedule_post =
            (/\ ~(last.before.share_now = <<>> /\ last.before.share_at = <<>>)
             /\ last.before.share_complete_at = <<>>
             /\ last.before.share_start_at = <<>>)
        /\ (last.before.share_now = <<>> /\ last.before.share_at = <<>>)
                => ~last.do_schedule_post
        /\ (last.outcome.kind = "return") =>
            /\ row # <<>>
            /\ row[1].share_now = last.before.share_now
            /\ row[1].share_start_at = last.before.share_start_at
            /\ row[1].share_complete_at = last.before.share_complete_at
            /\ (last.before.share_now # <<TRUE>>) => row[1].share_at = last.before.share_at

\* A completed save of a Post with share_now False alone raised the flag.
C9_Witness ==
    /\ last.op = "save" /\ last.outcome.kind = "return"
    /\ last.before.share_now = <<FALSE>> /\ last.before.share_at = <<>>
    /\ last.do_schedule_post
    /\ row # <<>> /\ row[1].share_at = <<>>

(***************************************************************************)
(* C10: every failing invocation of share_to_linkedin surfaces as one of   *)
(* InvalidInput, InvalidConnection, InvalidLinkedInUserId or ShareFailed,  *)
(* for every state of the store and every outcome of the outbound call.    *)
(***************************************************************************)
C10_FailuresAreDomainErrors ==
    (Sharing /\ result.kind = "raise") =>
        (InvalidInput \/ InvalidConnection \/ InvalidLinkedInUserId \/ ShareFailed)

====
